---- MODULE Spec2Model ----
(***************************************************************************)
(* Model of arara: the Aranet4 / Mitherm announcement decoders, the        *)
(* per-device state (State.aranet4, State.devices), the event handler      *)
(* process_event, the periodic print_state and the select loop of run.     *)
(*                                                                         *)
(* Conventions.                                                            *)
(*  - A byte payload is a sequence of naturals 0..255.                     *)
(*  - Option<T> is a sequence: None = << >>, Some(x) = <<x>>.              *)
(*  - The f64 products v * 0.05, v * 0.1 and v * 0.01 are kept exact as    *)
(*    integers in hundredths: v * 5, v * 10 and v.                         *)
(*  - A HashMap is the set of its [k, v] pairs; its iteration order is     *)
(*    arbitrary, so an iteration is a choice of an ordering.               *)
(*  - Utc::now() is the integer clock `now`; every handler reads a clock   *)
(*    value that is not before the previous reading.                       *)
(*                                                                         *)
(* Specifications.                                                         *)
(*  - Spec: the loop of run once started, both sources of select! ready    *)
(*    whenever the loop asks; the handlers and the store, with stdout's    *)
(*    sink taking every write.                                             *)
(*  - SinkSpec: the same loop with fewer events and a sink that may fail   *)
(*    any write; what reaches the sink and what stays in stdout's buffer.  *)
(*  - ProcSpec: main and the spawned run from startup to exit, with the    *)
(*    readiness of the timer and of the event stream and a sink that may   *)
(*    fail a handler's first write, under fairness; the clock stands       *)
(*    still and the handlers run at the default level (init_logging may    *)
(*    panic on the counts of -v and -q before anything is started).        *)
(*  - DecodeSpec: the two decoders applied to byte slices.                 *)
(*                                                                         *)
(* stdout carries the documents of print_state and the lines of tracing:   *)
(* the debug!, warn! and error! lines the level filter lets through are    *)
(* writes of the handlers, on the same line-buffered writer as the         *)
(* documents. Lines are kept without their text; `decoded` keeps what      *)
(* process_event's debug lines say about the announcements.                *)
(***************************************************************************)
EXTENDS Integers, Sequences, FiniteSets, TLC

\* ------------------------------------------------------------------ bounds
MaxTime == 2
MaxStale == 1

\* The events the stream may hold undelivered.
MaxPending == 2

\* The writes of a handler a sink is told to refuse or take one by one.
MaxWrites == 3

\* ------------------------------------------------------- program constants
MANUFACTURER_ID == 1794
APPLE_ID == 76
MITHERM_SVC == 6170
ARANET4_OFFSET == 8
MITHERM_OFFSET == 6

\* ------------------------------------------------------------------ Option
None == << >>
Some(x) == <<x>>

\* ------------------------------------------------------- scroll primitives
\* gread_with::<u16>(&mut offset, Endian::Little)
GreadU16(from, offset) ==
    IF offset + 2 > Len(from)
    THEN [ok |-> FALSE]
    ELSE [ok |-> TRUE, v |-> from[offset + 1] + 256 * from[offset + 2], offset |-> offset + 2]

\* gread::<u8>(&mut offset)
GreadU8_Defaulted(from, offset) ==
    IF offset + 1 > Len(from)
    THEN [ok |-> TRUE, v |-> 0, offset |-> offset + 1]
    ELSE [ok |-> TRUE, v |-> from[offset + 1], offset |-> offset + 1]
GreadU8(from, offset) ==
    IF offset + 1 > Len(from)
    THEN [ok |-> FALSE]
    ELSE [ok |-> TRUE, v |-> from[offset + 1], offset |-> offset + 1]

\* ---------------------------------------------------------------- decoders
DecodeErr == [ok |-> FALSE]

\* co2: (v >> 15 != 1).then(|| v)
Aranet4Co2(v) == IF v \div 32768 # 1 THEN Some(v) ELSE None
\* temperature: ((v >> 14 & 1) != 1).then(|| v as f64 * 0.05)
Aranet4Temperature_Bit15(v) == IF v \div 32768 # 1 THEN Some(v * 5) ELSE None
Aranet4Temperature(v) == IF (v \div 16384) % 2 # 1 THEN Some(v * 5) ELSE None
\* pressure: (v >> 15 != 1).then(|| v as f64 * 0.1)
Aranet4Pressure(v) == IF v \div 32768 # 1 THEN Some(v * 10) ELSE None

\* aranet4::Announcement::try_from_ctx. Each gread advances `offset` by the
\* size it read, so the six reads start at ARANET4_OFFSET + 0, 2, 4, 6, 7, 8;
\* `?` returns at the first read that fails.
Aranet4TryFromCtx(from) ==
    LET c == GreadU16(from, ARANET4_OFFSET)
        t == GreadU16(from, ARANET4_OFFSET + 2)
        p == GreadU16(from, ARANET4_OFFSET + 4)
        h == GreadU8(from, ARANET4_OFFSET + 6)
        b == GreadU8(from, ARANET4_OFFSET + 7)
        s == GreadU8(from, ARANET4_OFFSET + 8)
    IN
    IF ~c.ok THEN DecodeErr ELSE
    IF ~t.ok THEN DecodeErr ELSE
    IF ~p.ok THEN DecodeErr ELSE
    IF ~h.ok THEN DecodeErr ELSE
    IF ~b.ok THEN DecodeErr ELSE
    IF ~s.ok THEN DecodeErr ELSE
    [ok |-> TRUE,
     ann |-> [co2 |-> Aranet4Co2(c.v),
              temperature |-> Aranet4Temperature(t.v),
              pressure |-> Aranet4Pressure(p.v),
              humidity |-> h.v,
              battery |-> b.v,
              status |-> s.v],
     offset |-> s.offset]

\* mitherm::Announcement::try_from_ctx. The four reads start at
\* MITHERM_OFFSET + 0, 2, 4, 6.
MithermTryFromCtx_HumidityFirst(from) ==
    LET h == GreadU16(from, MITHERM_OFFSET)
        t == GreadU16(from, MITHERM_OFFSET + 2)
        m == GreadU16(from, MITHERM_OFFSET + 4)
        b == GreadU8(from, MITHERM_OFFSET + 6)
    IN
    IF ~h.ok THEN DecodeErr ELSE
    IF ~t.ok THEN DecodeErr ELSE
    IF ~m.ok THEN DecodeErr ELSE
    IF ~b.ok THEN DecodeErr ELSE
    [ok |-> TRUE,
     ann |-> [temperature |-> t.v,
              humidity |-> h.v,
              battery_mv |-> m.v,
              battery_percent |-> b.v],
     offset |-> b.offset]
MithermTryFromCtx(from) ==
    LET t == GreadU16(from, MITHERM_OFFSET)
        h == GreadU16(from, MITHERM_OFFSET + 2)
        m == GreadU16(from, MITHERM_OFFSET + 4)
        b == GreadU8(from, MITHERM_OFFSET + 6)
    IN
    IF ~t.ok THEN DecodeErr ELSE
    IF ~h.ok THEN DecodeErr ELSE
    IF ~m.ok THEN DecodeErr ELSE
    IF ~b.ok THEN DecodeErr ELSE
    [ok |-> TRUE,
     ann |-> [temperature |-> t.v,
              humidity |-> h.v,
              battery_mv |-> m.v,
              battery_percent |-> b.v],
     offset |-> b.offset]

\* ----------------------------------------------------------------- HashMap
HashMapKeys(m) == {e.k : e \in m}
HashMapContainsKey(m, k) == \E e \in m : e.k = k
HashMapGet(m, k) == IF HashMapContainsKey(m, k) THEN Some((CHOOSE e \in m : e.k = k).v) ELSE None
HashMapInsert(m, k, v) == {e \in m : e.k # k} \cup {[k |-> k, v |-> v]}


\* ------------------------------------------------------------------ inputs
Devices == {"d1", "d2"}
Names == {"n1"}

\* The frame of aranet4::tests::test_announcement (22 bytes).
ARANET_FRAME == <<33, 19, 4, 1, 0, 12, 15, 1, 185, 2, 217, 1, 75, 39, 51, 20, 1, 60, 0, 60, 0, 198>>
\* A frame of exactly the layout's length, co2 and temperature sentinels set.
ARANET_FRAME2 == <<33, 19, 4, 1, 0, 12, 15, 1, 0, 128, 0, 64, 16, 39, 40, 90, 2>>
\* The test frame cut one byte short of the layout.
ARANET_SHORT == SubSeq(ARANET_FRAME, 1, 16)
\* The frame of mitherm::tests::test_announcement (15 bytes).
MITHERM_FRAME == <<128, 73, 216, 56, 193, 164, 190, 8, 68, 21, 188, 11, 100, 239, 4>>
\* The test frame cut one byte short of the layout.
MITHERM_SHORT == SubSeq(MITHERM_FRAME, 1, 12)

UNKNOWN_MANUFACTURER == 65535
UNKNOWN_SVC == 6159

\* manufacturer_data maps in one iteration order: no key twice (a HashMap).
ManufacturerMaps ==
    {<<<<MANUFACTURER_ID, ARANET_FRAME>>>>,
     <<<<MANUFACTURER_ID, ARANET_FRAME2>>>>,
     <<<<MANUFACTURER_ID, ARANET_SHORT>>>>,
     <<<<APPLE_ID, << >>>>>>,
     <<<<APPLE_ID, ARANET_FRAME>>>>,
     <<<<MANUFACTURER_ID, ARANET_SHORT>>, <<APPLE_ID, ARANET_FRAME>>>>,
     <<<<APPLE_ID, ARANET_FRAME>>, <<MANUFACTURER_ID, ARANET_SHORT>>>>,
     <<<<MANUFACTURER_ID, ARANET_FRAME>>, <<APPLE_ID, << >>>>>>,
     <<<<APPLE_ID, << >>>>, <<MANUFACTURER_ID, ARANET_FRAME2>>>>,
     <<<<APPLE_ID, ARANET_FRAME>>, <<UNKNOWN_MANUFACTURER, ARANET_SHORT>>>>}

\* service_data maps in one iteration order.
ServiceMaps ==
    {<<<<MITHERM_SVC, MITHERM_FRAME>>>>,
     <<<<MITHERM_SVC, MITHERM_SHORT>>>>,
     <<<<UNKNOWN_SVC, << >>>>>>,
     <<<<UNKNOWN_SVC, MITHERM_FRAME>>>>,
     <<<<MITHERM_SVC, MITHERM_SHORT>>, <<UNKNOWN_SVC, MITHERM_FRAME>>>>,
     <<<<UNKNOWN_SVC, MITHERM_FRAME>>, <<MITHERM_SVC, MITHERM_SHORT>>>>,
     <<<<MITHERM_SVC, MITHERM_FRAME>>, <<UNKNOWN_SVC, << >>>>>>}

\* BluetoothEvent, as far as process_event tells events apart. The first device
\* sends every map above, the second one Aranet4 frame.
Events ==
    {[kind |-> "ManufacturerData", id |-> "d1", pairs |-> ps] : ps \in ManufacturerMaps}
    \cup {[kind |-> "ServiceData", id |-> "d1", pairs |-> ps] : ps \in ServiceMaps}
    \cup {[kind |-> "ManufacturerData", id |-> "d2", pairs |-> <<<<MANUFACTURER_ID, ARANET_FRAME>>>>]}
    \cup {[kind |-> "Adapter", id |-> "hci0", pairs |-> << >>]}
    \cup {[kind |-> "OtherDevice", id |-> "d1", pairs |-> << >>]}

NoEvent == [kind |-> "None", id |-> "none", pairs |-> << >>]

\* session.get_device_info(id): Err, or a DeviceInfo whose name is an Option.
LookupResults ==
    {[ok |-> FALSE]}
    \cup {[ok |-> TRUE, info |-> [name |-> None]]}
    \cup {[ok |-> TRUE, info |-> [name |-> Some(n)]] : n \in Names}

\* args.verbose as i8, args.quiet as i8: a u8 count above 127 comes out negative.
AsI8(n) == IF n > 127 THEN n - 256 ELSE n

\* a - b on i8. A difference that leaves -128..127 overflows: a build with
\* overflow checks panics (`attempt to subtract with overflow`), a build
\* without them wraps the difference. The build is not fixed by the
\* repository, so both are outcomes: None is the panic, Some(d) the i8 d.
SubI8(a, b) ==
    IF a - b < -128 \/ a - b > 127
    THEN {None, Some(((a - b + 384) % 256) - 128)}
    ELSE {Some(a - b)}

\* match .. { ..=-2 => ERROR, -1 => WARN, 0 => INFO, 1 => DEBUG, 2.. => TRACE }
LevelFilter(d) ==
    IF d <= -2 THEN "ERROR"
    ELSE IF d = -1 THEN "WARN"
    ELSE IF d = 0 THEN "INFO"
    ELSE IF d = 1 THEN "DEBUG"
    ELSE "TRACE"

\* init_logging: .with(match args.verbose as i8 - args.quiet as i8 { .. }).
\* What it comes to: the level of the filter it installs, or "panic" when the
\* subtraction panics, before any subscriber is installed.
InitLogging(verbose, quiet) ==
    {IF d = None THEN "panic" ELSE LevelFilter(d[1]) :
        d \in SubI8(AsI8(verbose), AsI8(quiet))}

\* How often -v and -q are given (clap counts them in a u8).
Counts == {0, 1, 2, 129, 255}

\* The levels the filter can have once init_logging has returned. A handler
\* is given the level as an input.
Levels == UNION {InitLogging(v, q) : v \in Counts, q \in Counts} \ {"panic"}

\* The filter lets the lines of macro level `of` through.
LevelRank(l) ==
    CASE l = "ERROR" -> 1 [] l = "WARN" -> 2 [] l = "INFO" -> 3
      [] l = "DEBUG" -> 4 [] l = "TRACE" -> 5
Enabled(lvl, of) == LevelRank(of) <= LevelRank(lvl)

\* The sink under a handler: sink[i] tells whether the sink takes all of the
\* i-th write_all the handler makes on stdout; it takes those past the end.
SinkAt(sink, i) == IF i <= Len(sink) THEN sink[i] ELSE TRUE
Sinks == [1..MaxWrites -> BOOLEAN]

\* ------------------------------------------------------------------- state
VARIABLES
    aranet4,    \* State.aranet4: HashMap<DeviceId, (DateTime, Announcement)>
    devices,    \* State.devices: HashMap<DeviceId, DeviceInfo>
    now,        \* the last reading of the clock
    stale,      \* args.stale
    pc,         \* where run is: "select", or "lookup" inside get_device_info().await
    event,      \* the event process_event was last called with
    visited,    \* how many pairs of `event` the for loop has taken up
    result,     \* what the last handler returned: "Ok", "Err" or "Pending"
    decoded,    \* the announcements the last process_event decoded (its debug log)
    proj,       \* the devices that passed print_state's filter at the last tick
    written,    \* the document the sink received from the last handler
    flushed,    \* what the sink received ahead of it from stdout's buffer
    logged,     \* the log lines of the last handler as the sink received them
    stdoutBuf,  \* what stdout's buffer holds: accepted, not yet at the sink
    lastOp,     \* the handler that ran last ("exit" once main has returned)
    excluded,   \* history: the devices whose entry was older than the window
                \* at the last tick
    main,       \* where main is: "args" (before init_logging), "new", "join"
                \* (bt_join_handle.await) or "exited"
    exitStatus, \* Some(status) once the process has exited, else None
    session,    \* the BluetoothSession: "none", "up" or "down" (terminated)
    runTask,    \* the spawned run: "none", "event_stream", "start_discovery",
                \* "loop", "panicked" or "dropped"
    timerDue,   \* output_ticker has a tick ready
    pending,    \* the events waiting in the event stream
    streamOpen, \* the event stream has not ended
    owed,       \* history: the source that was ready when select! took the other
    payload,    \* the bytes handed to the decoders
    kindA,      \* Some(what aranet4's decoder returned for payload), else None
    kindB       \* Some(what mitherm's decoder returned for payload), else None

dataVars == <<aranet4, devices, now, stale, pc, event, visited, result, decoded, proj,
              written, flushed, logged, stdoutBuf, lastOp, excluded>>
procVars == <<main, exitStatus, session, runTask, timerDue, pending, streamOpen, owed>>
decodeVars == <<payload, kindA, kindB>>
vars == <<dataVars, procVars, decodeVars>>

\* The clock readings a handler can get: time does not run backwards.
Clock == {t \in now..(now + 1) : t <= MaxTime}

\* let mut state = State::default(), and nothing handled yet.
StateInit ==
    /\ aranet4 = {}
    /\ devices = {}
    /\ now = 0
    /\ stale \in 1..MaxStale
    /\ pc = "select"
    /\ event = NoEvent
    /\ visited = 0
    /\ result = "Ok"
    /\ decoded = << >>
    /\ proj = {}
    /\ written = << >>
    /\ flushed = << >>
    /\ logged = << >>
    /\ stdoutBuf = << >>
    /\ lastOp = "init"
    /\ excluded = {}

\* No payload has been handed to a decoder.
DecodeIdle ==
    /\ payload = << >>
    /\ kindA = None
    /\ kindB = None

\* run has reached its loop: main waits on bt_join_handle, the session is up.
\* Under Spec the two sources of select! are ready whenever the loop asks.
Init ==
    /\ StateInit
    /\ DecodeIdle
    /\ main = "join"
    /\ exitStatus = None
    /\ session = "up"
    /\ runTask = "loop"
    /\ timerDue = TRUE
    /\ pending = 1
    /\ streamOpen = TRUE
    /\ owed = "none"


\* ------------------------------------------------------------------ stdout
\* std::io::stdout() is one line-buffered writer: print_state writes its
\* document to it and tracing's fmt layer (init_logging) its lines. Bytes that
\* end no line wait in stdout's buffer, a line end sends the buffer to the
\* sink, and what a refused write did not get out stays in the buffer. Buffer
\* and sink are kept without the content: "text" is bytes of documents short
\* of the line end writeln! gives a document, "newline" is that line end, and
\* "log" is bytes of log lines.

\* debug!(..) is called n times: the lines written at level lvl.
DebugLines(n, lvl) == IF Enabled(lvl, "DEBUG") THEN n ELSE 0

\* warn!(.., "Couldn't get device info") in the Err arm of the lookup.
WarnLines(res, lvl) == IF ~res.ok /\ Enabled(lvl, "WARN") THEN 1 ELSE 0

\* if let Err(err) = .. { error!(..) } writes a line at every level.
ErrorLines(r) == IF r = "Err" THEN 1 ELSE 0

\* A write can stop inside a text or a line: a text is pieces, cut between
\* them. `src` tells what the buffer held before the handler ("old"), the
\* handler's document ("doc") and the handler's log lines ("log") apart, and
\* `line` which write of the handler a log line is (0 for the rest).
Piece(k, s, i) == [kind |-> k, src |-> s, line |-> i]
RECURSIVE OldPieces(_)
OldPieces(buf) ==
    IF buf = << >> THEN << >>
    ELSE (IF Head(buf) = "newline" THEN <<Piece("newline", "old", 0)>>
          ELSE <<Piece(Head(buf), "old", 0), Piece(Head(buf), "old", 0)>>)
         \o OldPieces(Tail(buf))
DocPieces ==
    <<Piece("text", "doc", 0), Piece("text", "doc", 0), Piece("text", "doc", 0),
      Piece("newline", "doc", 0)>>
LogPieces(i) == <<Piece("log", "log", i), Piece("log", "log", i)>>

\* The pieces of ps that come from s.
RECURSIVE From(_, _)
From(ps, s) ==
    IF ps = << >> THEN << >>
    ELSE (IF Head(ps).src = s THEN <<Head(ps)>> ELSE << >>) \o From(Tail(ps), s)

\* Pieces without the cuts: texts that meet are one text, log bytes one "log".
RECURSIVE Collapse(_)
Collapse(ps) ==
    IF ps = << >> THEN << >>
    ELSE LET r == Collapse(Tail(ps)) IN
         IF r # << >> /\ r[1] = Head(ps).kind /\ r[1] # "newline" THEN r
         ELSE <<Head(ps).kind>> \o r

\* What the sink received of the buffer's earlier content.
Flushed(sunk) == Collapse(From(sunk, "old"))

\* The document as the sink has it: nothing of it, a part of it, all of it
\* short of its line end, or all of it.
Document(output, sunk) ==
    LET n == Len(From(sunk, "doc")) IN
    IF n = 0 THEN << >>
    ELSE <<[aranet4 |-> output, whole |-> n >= 3, newline |-> n = 4]>>

\* The handler's log lines i..k as the sink has them, in the order written:
\* "line" for a whole line, "part" for a line cut short, nothing for a line
\* of which the sink has nothing.
RECURSIVE Logged(_, _, _)
Logged(sunk, i, k) ==
    IF i > k THEN << >>
    ELSE LET n == Len(SelectSeq(sunk, LAMBDA p : p.src = "log" /\ p.line = i)) IN
         (IF n = 2 THEN <<"line">> ELSE IF n = 1 THEN <<"part">> ELSE << >>)
         \o Logged(sunk, i + 1, k)

\* The buffer's last byte is a line end (a text may end with one or not).
EndsLine(held) == held # << >> /\ held[Len(held)].kind # "text"

\* to_writer(_pretty), writeln! and flush on stdout, whose buffer holds `held`.
\* A working sink takes the buffer and the document. A failing sink ends the
\* write at the first flush it refuses: the document had got into the buffer
\* up to piece x[1], the sink took the pieces up to x[2], the pieces between
\* stay in the buffer, and what serde_json had not produced by then is lost.
\* A buffer that ends a line is flushed before it takes anything of the
\* document.
StdoutWrite(held, sinkOk) ==
    LET stream == held \o DocPieces
        b == Len(held)
        n == Len(stream)
    IN  IF sinkOk THEN {[ok |-> TRUE, sunk |-> stream, rest |-> << >>]}
        ELSE {[ok |-> FALSE, sunk |-> SubSeq(stream, 1, x[2]),
               rest |-> SubSeq(stream, x[2] + 1, x[1])] :
                x \in {y \in (b..n) \X (0..(n - 1)) :
                          /\ y[2] < y[1]
                          /\ (EndsLine(held) /\ y[1] > b) => y[2] >= b}}

\* The fmt layer's write_all of one line, the handler's i-th write, to stdout,
\* whose buffer holds `held`; its error is dropped. A working sink takes the
\* buffer and the line. With a failing sink and an empty buffer the line goes
\* straight to the sink, which takes a part of it at most, and the rest is
\* lost. With a failing sink and a buffer that holds bytes,
\*  - the line joins the buffer and the flush stops short; or
\*  - the line finds no room and the flush for room stops short: the line is
\*    lost; or
\*  - the line is as long as the buffer, the flush for room goes through and
\*    the line goes straight to the sink, which takes a part of it at most:
\*    the rest of the line is lost, the buffer is empty.
LogWrite(held, i, sinkOk) ==
    LET line == LogPieces(i)
        stream == held \o line
        h == Len(held)
        n == Len(stream)
    IN  IF sinkOk THEN {[sunk |-> stream, rest |-> << >>]}
        ELSE IF h = 0
        THEN {[sunk |-> SubSeq(line, 1, d), rest |-> << >>] : d \in 0..(Len(line) - 1)}
        ELSE {[sunk |-> SubSeq(stream, 1, d), rest |-> SubSeq(stream, d + 1, n)] :
                d \in 0..(n - 1)}
             \cup {[sunk |-> SubSeq(held, 1, d), rest |-> SubSeq(held, d + 1, h)] :
                d \in 0..(h - 1)}
             \cup {[sunk |-> held \o SubSeq(line, 1, d), rest |-> << >>] :
                d \in 0..(Len(line) - 1)}

\* The lines that are the handler's writes i..k, one after the other, under
\* the sink `sink`.
RECURSIVE LogWrites(_, _, _, _)
LogWrites(held, i, k, sink) ==
    IF i > k THEN {[sunk |-> << >>, rest |-> held]}
    ELSE UNION {{[sunk |-> w.sunk \o v.sunk, rest |-> v.rest] :
                    v \in LogWrites(w.rest, i + 1, k, sink)} :
                w \in LogWrite(held, i, SinkAt(sink, i))}

\* A handler that writes k log lines and nothing else to stdout, which holds
\* buf: what the sink received (of the buffer's earlier content, of the
\* lines) and what the buffer holds after.
LogLines(buf, k, sink) ==
    {[flushed |-> Flushed(w.sunk), logged |-> Logged(w.sunk, 1, k), buf |-> Collapse(w.rest)] :
        w \in LogWrites(OldPieces(buf), 1, k, sink)}

\* ----------------------------------------------------------- process_event
\* match *key { aranet4::MANUFACTURER_ID => ..., 0x004C => debug, _ => debug }
IsAranet4Key_AppleToo(key) == key = MANUFACTURER_ID \/ key = APPLE_ID
IsAranet4Key(key) == key = MANUFACTURER_ID

\* if *svc == uuid_from_u16(0x181A)
IsMithermSvc(svc) == svc = MITHERM_SVC

\* The MANUFACTURER_ID arm up to the insert: pread()? then state.aranet4.insert.
\* A failed pread leaves through `?` before anything is written.
Aranet4Arm_ClearOnErr(a4, id, value, t) ==
    LET r == Aranet4TryFromCtx(value) IN
    IF ~r.ok
    THEN [result |-> "Err", aranet4 |-> {e \in a4 : e.k # id}, decoded |-> << >>]
    ELSE [result |-> "Ok",
          aranet4 |-> HashMapInsert(a4, id, [ts |-> t, ann |-> r.ann]),
          decoded |-> <<[kind |-> "aranet4", ann |-> r.ann]>>]
Aranet4Arm(a4, id, value, t) ==
    LET r == Aranet4TryFromCtx(value) IN
    IF ~r.ok
    THEN [result |-> "Err", aranet4 |-> a4, decoded |-> << >>]
    ELSE [result |-> "Ok",
          aranet4 |-> HashMapInsert(a4, id, [ts |-> t, ann |-> r.ann]),
          decoded |-> <<[kind |-> "aranet4", ann |-> r.ann]>>]

\* The body of `if *svc == uuid`: pread()? then a debug line, nothing stored.
MithermArm(value) ==
    LET r == MithermTryFromCtx(value) IN
    IF ~r.ok
    THEN [result |-> "Err", decoded |-> << >>]
    ELSE [result |-> "Ok", decoded |-> <<[kind |-> "mitherm", ann |-> r.ann]>>]

\* if !state.devices.contains_key(id)
NeedsLookup_Never(devs, id) == FALSE
NeedsLookup(devs, id) == ~HashMapContainsKey(devs, id)

\* for (key, value) in manufacturer_data, from pair i on, with the clock at t.
\* "Await" is the return to the executor at get_device_info(id).await. n
\* counts the calls of debug!: one for a decoded announcement, one more ahead
\* of the lookup, one for a pair of another key.
RECURSIVE ManufacturerLoop(_, _, _, _, _, _, _, _)
ManufacturerLoop(a4, devs, id, pairs, i, t, dec, n) ==
    IF i > Len(pairs)
    THEN [result |-> "Ok", aranet4 |-> a4, visited |-> Len(pairs), decoded |-> dec,
          debugs |-> n]
    ELSE IF IsAranet4Key(pairs[i][1])
    THEN LET arm == Aranet4Arm(a4, id, pairs[i][2], t) IN
         IF arm.result = "Err"
         THEN [result |-> "Err", aranet4 |-> arm.aranet4, visited |-> i, decoded |-> dec,
               debugs |-> n]
         ELSE IF NeedsLookup(devs, id)
         THEN [result |-> "Await", aranet4 |-> arm.aranet4, visited |-> i,
               decoded |-> dec \o arm.decoded, debugs |-> n + 2]
         ELSE ManufacturerLoop(arm.aranet4, devs, id, pairs, i + 1, t, dec \o arm.decoded,
                               n + 1)
    ELSE ManufacturerLoop(a4, devs, id, pairs, i + 1, t, dec, n + 1)

\* for (svc, value) in service_data, from pair i on. n counts the calls of
\* debug!: two for every pair, one more for a decoded announcement.
RECURSIVE ServiceLoop(_, _, _, _)
ServiceLoop(pairs, i, dec, n) ==
    IF i > Len(pairs)
    THEN [result |-> "Ok", visited |-> Len(pairs), decoded |-> dec, debugs |-> n]
    ELSE IF IsMithermSvc(pairs[i][1])
    THEN LET arm == MithermArm(pairs[i][2]) IN
         IF arm.result = "Err"
         THEN [result |-> "Err", visited |-> i, decoded |-> dec, debugs |-> n + 2]
         ELSE ServiceLoop(pairs, i + 1, dec \o arm.decoded, n + 3)
    ELSE ServiceLoop(pairs, i + 1, dec, n + 2)

\* process_event(state, session, event) up to its return or its first await.
\* An "Adapter" event is AdapterEvent::Powered or ::Discovering, which have a
\* debug! each; every other event falls to `_ => {}`.
ProcessEvent(a4, devs, ev, t) ==
    IF ev.kind = "ManufacturerData"
    THEN ManufacturerLoop(a4, devs, ev.id, ev.pairs, 1, t, << >>, 0)
    ELSE IF ev.kind = "ServiceData"
    THEN LET r == ServiceLoop(ev.pairs, 1, << >>, 0) IN
         [result |-> r.result, aranet4 |-> a4, visited |-> r.visited, decoded |-> r.decoded,
          debugs |-> r.debugs]
    ELSE [result |-> "Ok", aranet4 |-> a4, visited |-> 0, decoded |-> << >>,
          debugs |-> IF ev.kind = "Adapter" THEN 1 ELSE 0]

\* Ok(info) => state.devices.insert(id, info); Err(err) => warn!
LookupArm(devs, id, res) ==
    IF res.ok THEN HashMapInsert(devs, id, res.info) ELSE devs

\* What the loop's match does with process_event's return value.
Returned(r) == IF r = "Await" THEN "Pending" ELSE r

\* Poll::Event(event) =>
\*     if let Err(err) = process_event(&mut state, &session, &event).await { error!(..) }
\* with the filter at lvl: the debug! lines of process_event, then the error!
\* line of run, written to stdout under `sink`.
Event(ev, t, lvl, sink) ==
    /\ pc = "select"
    /\ \E r \in {ProcessEvent(aranet4, devices, ev, t)} :
        /\ aranet4' = r.aranet4
        /\ visited' = r.visited
        /\ decoded' = r.decoded
        /\ result' = Returned(r.result)
        /\ pc' = IF r.result = "Await" THEN "lookup" ELSE "select"
        /\ \E o \in LogLines(stdoutBuf, DebugLines(r.debugs, lvl) + ErrorLines(r.result),
                              sink) :
            /\ flushed' = o.flushed
            /\ logged' = o.logged
            /\ stdoutBuf' = o.buf
    /\ event' = ev
    /\ now' = t
    /\ proj' = {}
    /\ written' = << >>
    /\ lastOp' = "event"
    /\ UNCHANGED <<devices, stale, excluded>>

\* get_device_info(id).await completes with res: Err(err) => warn!(..); the
\* for loop goes on with its debug! lines, and an Err it returns gets run's
\* error! line. The filter is at lvl, the lines are written under `sink`.
LookupDone(res, t, lvl, sink) ==
    /\ pc = "lookup"
    /\ \E devs \in {LookupArm(devices, event.id, res)} :
       \E r \in {ManufacturerLoop(aranet4, devs, event.id, event.pairs, visited + 1, t,
                                  decoded, 0)} :
        /\ devices' = devs
        /\ aranet4' = r.aranet4
        /\ visited' = r.visited
        /\ decoded' = r.decoded
        /\ result' = Returned(r.result)
        /\ pc' = IF r.result = "Await" THEN "lookup" ELSE "select"
        /\ \E o \in LogLines(stdoutBuf,
                              WarnLines(res, lvl) + DebugLines(r.debugs, lvl)
                                + ErrorLines(r.result),
                              sink) :
            /\ flushed' = o.flushed
            /\ logged' = o.logged
            /\ stdoutBuf' = o.buf
    /\ now' = t
    /\ lastOp' = "lookup"
    /\ UNCHANGED <<stale, event, proj, written, excluded>>


\* ------------------------------------------------------------- print_state
\* .filter(|(_, (ts, _))| now - ts < stale)
IsFresh(t, ts, st) == t - ts < st

\* state.devices.get(id).and_then(|info| info.name.clone()).unwrap_or_else(|| id.to_string())
Display(devs, id) ==
    LET info == HashMapGet(devs, id) IN
    IF info = None THEN id
    ELSE IF info[1].name = None THEN id
    ELSE info[1].name[1]

\* The orders in which a HashMap's iterator can yield the entries of S.
Orders(S) ==
    {o \in [1..Cardinality(S) -> S] : \A i, j \in 1..Cardinality(S) : o[i] = o[j] => i = j}

\* .map(...).collect() into HashMap<String, &Announcement>: inserts in iteration order.
RECURSIVE Collect(_, _, _, _)
Collect(order, devs, i, acc) ==
    IF i > Len(order) THEN acc
    ELSE Collect(order, devs, i + 1,
                 HashMapInsert(acc, Display(devs, order[i].k), order[i].v.ann))

\* print_state(args, state) with the clock at t, state.aranet4 iterated in
\* `order`, the filter at lvl and stdout holding buf, under `sink`:
\* debug!("{:?}", &output), then the document; both output formats render
\* output.aranet4 as one document and end it with writeln!. An outcome is what
\* print_state returns, the pieces the sink received, the pieces stdout's
\* buffer holds afterwards and the number of writes made.
PrintState(order, devs, buf, lvl, sink) ==
    LET output == Collect(order, devs, 1, {})
        d == DebugLines(1, lvl)
    IN  IF output = {}
        THEN {[result |-> "Ok", output |-> output, sunk |-> << >>,
               rest |-> OldPieces(buf), writes |-> 0]}
        ELSE UNION {{[result |-> IF w.ok THEN "Ok" ELSE "Err", output |-> output,
                      sunk |-> l.sunk \o w.sunk, rest |-> w.rest, writes |-> d + 1] :
                         w \in StdoutWrite(l.rest, SinkAt(sink, d + 1))} :
                    l \in LogWrites(OldPieces(buf), 1, d, sink)}

\* if let Err(err) = print_state(args, &state) { error!(?err, "Couldn't print state") }
\* The error! line is the write after print_state's. An outcome is what
\* print_state returned, what the sink received in the arm (of the buffer's
\* earlier content, of the document, of the lines) and what stdout's buffer
\* holds after it.
TickArm(order, devs, buf, lvl, sink) ==
    UNION {{[result |-> r.result,
             flushed |-> Flushed(r.sunk \o w.sunk),
             written |-> Document(r.output, r.sunk \o w.sunk),
             logged |-> Logged(r.sunk \o w.sunk, 1, r.writes + 1),
             buf |-> Collapse(w.rest)] :
                w \in LogWrites(r.rest, r.writes + 1, r.writes + ErrorLines(r.result), sink)} :
           r \in PrintState(order, devs, buf, lvl, sink)}

\* Poll::OutputTick => the arm above.
OutputTick(t, lvl, sink) ==
    /\ pc = "select"
    /\ \E filtered \in {{e \in aranet4 : IsFresh(t, e.v.ts, stale)}} :
        /\ \E order \in Orders(filtered) :
            \E o \in TickArm(order, devices, stdoutBuf, lvl, sink) :
                /\ result' = o.result
                /\ flushed' = o.flushed
                /\ written' = o.written
                /\ logged' = o.logged
                /\ stdoutBuf' = o.buf
        /\ proj' = HashMapKeys(filtered)
        /\ excluded' = HashMapKeys({e \in aranet4 : t - e.v.ts > stale})
    /\ now' = t
    /\ event' = NoEvent
    /\ visited' = 0
    /\ decoded' = << >>
    /\ lastOp' = "tick"
    /\ UNCHANGED <<aranet4, devices, stale, pc>>

\* -------------------------------------------------------------------- run
\* loop { match select! { tick => print_state, Some(event) => process_event } }
\* Under Spec the sink takes every write.
Next ==
    \/ \E t \in Clock, lvl \in Levels :
        OutputTick(t, lvl, << >>) /\ UNCHANGED <<procVars, decodeVars>>
    \/ \E t \in Clock, ev \in Events, lvl \in Levels :
        Event(ev, t, lvl, << >>) /\ UNCHANGED <<procVars, decodeVars>>
    \/ \E t \in Clock, res \in LookupResults, lvl \in Levels :
        LookupDone(res, t, lvl, << >>) /\ UNCHANGED <<procVars, decodeVars>>

Spec == Init /\ [][Next]_vars

\* The events delivered to the loop under SinkSpec: a frame that decodes and
\* one that does not.
SinkEvents ==
    {[kind |-> "ManufacturerData", id |-> "d1", pairs |-> <<<<MANUFACTURER_ID, ARANET_FRAME>>>>],
     [kind |-> "ManufacturerData", id |-> "d1", pairs |-> <<<<MANUFACTURER_ID, ARANET_SHORT>>>>]}

\* The same loop with a sink that takes a write or fails it.
SinkNext ==
    \/ \E t \in Clock, lvl \in Levels, sink \in Sinks :
        OutputTick(t, lvl, sink) /\ UNCHANGED <<procVars, decodeVars>>
    \/ \E t \in Clock, ev \in SinkEvents, lvl \in Levels, sink \in Sinks :
        Event(ev, t, lvl, sink) /\ UNCHANGED <<procVars, decodeVars>>
    \/ \E t \in Clock, res \in LookupResults, lvl \in Levels, sink \in Sinks :
        LookupDone(res, t, lvl, sink) /\ UNCHANGED <<procVars, decodeVars>>

SinkSpec == Init /\ [][SinkNext]_vars

\* ------------------------------------------- the process: main and run
\* The exit status of a process whose main returned ret (Result<()>).
\* A panic that unwinds out of main ends the process with status 101.
ExitCode(ret) == IF ret = "Ok" THEN 0 ELSE IF ret = "Err" THEN 1 ELSE 101

\* What main returns once bt_join_handle has completed:
\* bt_join_handle.await?; Err(anyhow!("Bluetooth Session terminated!"))
JoinReturn_Ok == "Ok"
JoinReturn == "Err"

\* .unwrap() of a startup step of run: go on to `next`, or panic in the task.
Unwrap(ok, next) == IF ok THEN next ELSE "panicked"

\* if let Err(err) = handler { error!(..) }: the loop goes on whatever res is.
AfterHandler_Unwrap(res) == IF res = "Err" THEN "panicked" ELSE "loop"
AfterHandler(res) == "loop"

\* select!: the branch `_ = output_ticker.tick()` can be taken.
TickReady_EventsFirst(due, n) == due /\ n = 0
TickReady(due, n) == due
\* select!: the branch `Some(event) = events.next()` can be taken.
EventReady(due, n) == n > 0

\* The events delivered to the loop under ProcSpec: a frame that decodes, two
\* that do not, an unknown key and a non-frame event.
LoopEvents ==
    {[kind |-> "ManufacturerData", id |-> "d1", pairs |-> <<<<MANUFACTURER_ID, ARANET_FRAME>>>>],
     [kind |-> "ManufacturerData", id |-> "d1", pairs |-> <<<<MANUFACTURER_ID, ARANET_SHORT>>>>],
     [kind |-> "ManufacturerData", id |-> "d1",
      pairs |-> <<<<APPLE_ID, ARANET_FRAME>>, <<UNKNOWN_MANUFACTURER, ARANET_SHORT>>>>],
     [kind |-> "ServiceData", id |-> "d1", pairs |-> <<<<MITHERM_SVC, MITHERM_SHORT>>>>],
     [kind |-> "Adapter", id |-> "hci0", pairs |-> << >>]}

\* The process right after Args::parse().
ProcInit ==
    /\ StateInit
    /\ DecodeIdle
    /\ main = "args"
    /\ exitStatus = None
    /\ session = "none"
    /\ runTask = "none"
    /\ timerDue = FALSE
    /\ pending = 0
    /\ streamOpen = FALSE
    /\ owed = "none"

\* init_logging(&args): the filter is installed and main goes on, or the
\* subtraction of the counts panics and the process ends there, with no
\* subscriber and no session. The level installed is an input of the handlers.
MainInitLogging(verbose, quiet) ==
    /\ main = "args"
    /\ \E o \in InitLogging(verbose, quiet) :
        IF o = "panic"
        THEN /\ main' = "exited"
             /\ exitStatus' = Some(ExitCode("Panic"))
        ELSE /\ main' = "new"
             /\ UNCHANGED exitStatus
    /\ UNCHANGED <<session, runTask, timerDue, pending, streamOpen, owed, dataVars,
                   decodeVars>>

\* let (bt_join_handle, session) = BluetoothSession::new().await?;
\* tokio::spawn(async move { run(&args, session).await });
\* run creates its State and its interval, whose first tick is immediate.
MainNew(ok) ==
    /\ main = "new"
    /\ IF ok
       THEN /\ main' = "join"
            /\ session' = "up"
            /\ runTask' = "event_stream"
            /\ timerDue' = TRUE
            /\ UNCHANGED exitStatus
       ELSE /\ main' = "exited"
            /\ exitStatus' = Some(ExitCode("Err"))
            /\ UNCHANGED <<session, runTask, timerDue>>
    /\ UNCHANGED <<pending, streamOpen, owed, dataVars, decodeVars>>

\* let mut events = session.event_stream().await.unwrap();
RunEventStream(ok) ==
    /\ main = "join"
    /\ runTask = "event_stream"
    /\ runTask' = Unwrap(ok, "start_discovery")
    /\ streamOpen' = ok
    /\ UNCHANGED <<main, exitStatus, session, timerDue, pending, owed, dataVars, decodeVars>>

\* session.start_discovery().await.unwrap();
RunStartDiscovery(ok) ==
    /\ main = "join"
    /\ runTask = "start_discovery"
    /\ runTask' = Unwrap(ok, "loop")
    /\ UNCHANGED <<main, exitStatus, session, timerDue, pending, streamOpen, owed,
                   dataVars, decodeVars>>

\* The D-Bus connection goes away: bt_join_handle completes.
SessionEnds ==
    /\ main = "join"
    /\ session = "up"
    /\ session' = "down"
    /\ UNCHANGED <<main, exitStatus, runTask, timerDue, pending, streamOpen, owed,
                   dataVars, decodeVars>>

\* What the sink takes when the process ends: std replaces stdout's writer on
\* the way out, and the dropped one flushes its buffer once, errors ignored.
ExitFlush(buf, sinkOk) ==
    LET held == OldPieces(buf) IN
    IF sinkOk \/ buf = << >> THEN {buf}
    ELSE {Collapse(SubSeq(held, 1, d)) : d \in 0..(Len(held) - 1)}

\* bt_join_handle.await?; Err(..): main returns, the runtime drops run, and
\* what stdout's buffer still holds is flushed.
MainExit ==
    /\ main = "join"
    /\ session = "down"
    /\ main' = "exited"
    /\ exitStatus' = Some(ExitCode(JoinReturn))
    /\ runTask' = IF runTask = "panicked" THEN "panicked" ELSE "dropped"
    /\ \E sinkOk \in BOOLEAN : flushed' \in ExitFlush(stdoutBuf, sinkOk)
    /\ stdoutBuf' = << >>
    /\ written' = << >>
    /\ logged' = << >>
    /\ lastOp' = "exit"
    /\ UNCHANGED <<session, timerDue, pending, streamOpen, owed, decodeVars,
                   aranet4, devices, now, stale, pc, event, visited, result,
                   decoded, proj, excluded>>

\* The interval's period has passed.
TimerFires ==
    /\ main = "join"
    /\ runTask = "loop"
    /\ ~timerDue
    /\ timerDue' = TRUE
    /\ UNCHANGED <<main, exitStatus, session, runTask, pending, streamOpen, owed,
                   dataVars, decodeVars>>

\* The transport puts an event on the stream.
EventArrives ==
    /\ main = "join"
    /\ runTask \in {"start_discovery", "loop"}
    /\ streamOpen
    /\ pending < MaxPending
    /\ pending' = pending + 1
    /\ UNCHANGED <<main, exitStatus, session, runTask, timerDue, streamOpen, owed,
                   dataVars, decodeVars>>

\* The stream ends: events.next() yields what is left, then None.
StreamEnds ==
    /\ main = "join"
    /\ runTask = "loop"
    /\ streamOpen
    /\ streamOpen' = FALSE
    /\ UNCHANGED <<main, exitStatus, session, runTask, timerDue, pending, owed,
                   dataVars, decodeVars>>

\* select! takes the tick: Poll::OutputTick => print_state(args, &state)
TickStep(t, lvl, sink) ==
    /\ main = "join"
    /\ runTask = "loop"
    /\ TickReady(timerDue, pending)
    /\ OutputTick(t, lvl, sink)
    /\ timerDue' = FALSE
    /\ owed' = IF EventReady(timerDue, pending) THEN "events" ELSE "none"
    /\ runTask' = AfterHandler(result')
    /\ UNCHANGED <<main, exitStatus, session, pending, streamOpen, decodeVars>>

\* select! takes the event: Poll::Event(event) => process_event(..).await
EventStep(ev, t, lvl, sink) ==
    /\ main = "join"
    /\ runTask = "loop"
    /\ EventReady(timerDue, pending)
    /\ Event(ev, t, lvl, sink)
    /\ pending' = pending - 1
    /\ owed' = IF TickReady(timerDue, pending) THEN "timer" ELSE "none"
    /\ runTask' = IF pc' = "lookup" THEN runTask ELSE AfterHandler(result')
    /\ UNCHANGED <<main, exitStatus, session, timerDue, streamOpen, decodeVars>>

\* get_device_info(id).await completes inside process_event.
LookupStep(res, t, lvl, sink) ==
    /\ main = "join"
    /\ runTask = "loop"
    /\ LookupDone(res, t, lvl, sink)
    /\ runTask' = IF pc' = "lookup" THEN runTask ELSE AfterHandler(result')
    /\ UNCHANGED <<main, exitStatus, session, timerDue, pending, streamOpen, owed,
                   decodeVars>>

\* The clock readings of the handlers under ProcSpec: the run is short, the
\* clock does not move in it (what the passing of time does is Spec's part).
ProcClock == {now}

\* The sinks under ProcSpec: one that takes every write and one that refuses
\* a handler's first write. stdout's buffer is empty between the steps (what
\* a refused later write leaves in it is SinkSpec's part).
ProcSinks == {<< >>, <<FALSE>>}

\* The level under ProcSpec: neither -v nor -q is given.
ProcLevels == InitLogging(0, 0)

\* init_logging under ProcSpec, whatever the counts of -v and -q.
SomeInitLogging == \E v \in Counts, q \in Counts : MainInitLogging(v, q)

\* The steps of the loop under ProcSpec, whatever the clock and the sink give.
SomeTickStep ==
    \E t \in ProcClock, lvl \in ProcLevels, sink \in ProcSinks : TickStep(t, lvl, sink)
SomeEventStep ==
    \E t \in ProcClock, ev \in LoopEvents, lvl \in ProcLevels, sink \in ProcSinks :
        EventStep(ev, t, lvl, sink)
SomeLookupStep ==
    \E t \in ProcClock, res \in LookupResults, lvl \in ProcLevels, sink \in ProcSinks :
        LookupStep(res, t, lvl, sink)

ProcNext ==
    \/ SomeInitLogging
    \/ \E ok \in BOOLEAN : MainNew(ok)
    \/ \E ok \in BOOLEAN : RunEventStream(ok)
    \/ \E ok \in BOOLEAN : RunStartDiscovery(ok)
    \/ SessionEnds
    \/ MainExit
    \/ TimerFires
    \/ EventArrives
    \/ StreamEnds
    \/ SomeTickStep
    \/ SomeEventStep
    \/ SomeLookupStep

\* The executor runs main and run when they can go on; select! picks at
\* random among its ready branches, so a branch that is ready again and
\* again is taken (the tick branch is not ready while process_event awaits
\* a lookup, hence SF; the event branch stays ready until taken, hence WF);
\* a D-Bus call gets its reply or its timeout.
ProcFair ==
    /\ WF_vars(SomeInitLogging)
    /\ WF_vars(\E ok \in BOOLEAN : MainNew(ok))
    /\ WF_vars(\E ok \in BOOLEAN : RunEventStream(ok))
    /\ WF_vars(\E ok \in BOOLEAN : RunStartDiscovery(ok))
    /\ WF_vars(MainExit)
    /\ SF_vars(SomeTickStep)
    /\ WF_vars(SomeEventStep)
    /\ WF_vars(SomeLookupStep)

ProcSpec == ProcInit /\ [][ProcNext]_vars /\ ProcFair

\* ---------------------------------------------------- the decoders, alone
\* The high bytes tried for each u16 field: bits 15 and 14 clear or set.
HighBytes == {2, 64, 128, 192}

\* Frames of exactly the Aranet4 layout's length with every combination of
\* the high bytes of co2, temperature and pressure.
SentinelFrames ==
    {SubSeq(ARANET_FRAME, 1, ARANET4_OFFSET) \o <<185, c, 217, t, 75, p, 51, 20, 1>> :
        c \in HighBytes, t \in HighBytes, p \in HighBytes}

\* Frames of exactly the Mitherm layout's length with every combination of
\* the high bytes of temperature and humidity.
MithermHighFrames ==
    {SubSeq(MITHERM_FRAME, 1, MITHERM_OFFSET) \o <<190, t, 68, h, 188, 11, 100>> :
        t \in HighBytes, h \in HighBytes}

\* Every prefix of f, the empty one and f itself included.
Prefixes(f) == {SubSeq(f, 1, n) : n \in 0..Len(f)}

\* The byte slices handed to value.pread::<Announcement>(0).
Payloads ==
    SentinelFrames \cup MithermHighFrames
        \cup Prefixes(ARANET_FRAME) \cup Prefixes(MITHERM_FRAME)

DecodeInit ==
    /\ StateInit
    /\ payload \in Payloads
    /\ kindA = None
    /\ kindB = None
    /\ main = "join"
    /\ exitStatus = None
    /\ session = "up"
    /\ runTask = "loop"
    /\ timerDue = TRUE
    /\ pending = 1
    /\ streamOpen = TRUE
    /\ owed = "none"

\* value.pread::<aranet4::Announcement>(0)
DecodeKindA ==
    /\ kindA' = Some(Aranet4TryFromCtx(payload))
    /\ UNCHANGED <<payload, kindB, dataVars, procVars>>

\* value.pread::<mitherm::Announcement>(0)
DecodeKindB ==
    /\ kindB' = Some(MithermTryFromCtx(payload))
    /\ UNCHANGED <<payload, kindA, dataVars, procVars>>

DecodeNext == DecodeKindA \/ DecodeKindB

DecodeSpec == DecodeInit /\ [][DecodeNext]_vars


\* ================================================================== claims
\* The handler that ran last was process_event and it has returned to the loop.
EventReturned == pc = "select" /\ lastOp \in {"event", "lookup"}

\* The pairs of ev that carry a recognised key and a payload its decoder accepts,
\* as [i, ann]: the position in the map's iteration and the reading.
Decodable(ev) ==
    {[i |-> i, ann |-> Aranet4TryFromCtx(ev.pairs[i][2]).ann] :
        i \in {j \in 1..Len(ev.pairs) :
                /\ ev.kind = "ManufacturerData"
                /\ ev.pairs[j][1] = MANUFACTURER_ID
                /\ Aranet4TryFromCtx(ev.pairs[j][2]).ok}}
    \cup {[i |-> i, ann |-> MithermTryFromCtx(ev.pairs[i][2]).ann] :
        i \in {j \in 1..Len(ev.pairs) :
                /\ ev.kind = "ServiceData"
                /\ ev.pairs[j][1] = MITHERM_SVC
                /\ MithermTryFromCtx(ev.pairs[j][2]).ok}}

\* ev is a frame-bearing event none of whose keys is recognised.
OnlyUnrecognised(ev) ==
    /\ ev.kind \in {"ManufacturerData", "ServiceData"}
    /\ ev.pairs # << >>
    /\ \A i \in 1..Len(ev.pairs) :
        ev.pairs[i][1] # (IF ev.kind = "ManufacturerData" THEN MANUFACTURER_ID ELSE MITHERM_SVC)

\* C1: when process_event has returned, every key/payload pair of its event has
\* been taken up by the for loop, also when the decode of one pair failed.
C1_AllPairsProcessed == EventReturned => visited = Len(event.pairs)

\* C2: a process_event that ends in a decode failure leaves State.aranet4 and
\* State.devices exactly as they were.
C2_FailedDecodeKeepsStore ==
    [][(lastOp' = "event" /\ result' = "Err") => (aranet4' = aranet4 /\ devices' = devices)]_vars

\* C2 witness: a decode failure for a device that has an entry, with another
\* device's entry and a known DeviceInfo in the state.
C2_Witness ==
    /\ lastOp = "event"
    /\ result = "Err"
    /\ HashMapContainsKey(aranet4, event.id)
    /\ \E e \in aranet4 : e.k # event.id
    /\ devices # {}

\* C3: after process_event has taken up a pair with a recognised key (0x0702 in
\* ManufacturerData, 0x181A in ServiceData) and a decodable payload, the store
\* holds (now, reading) for the event's device.
C3_DecodeWritesStore ==
    lastOp = "event" =>
        \A p \in Decodable(event) :
            HashMapGet(aranet4, event.id) = Some([ts |-> now, ann |-> p.ann])

\* C4: a tick's projection holds exactly the entries with now - captured_at <= window.
C4_InclusiveWindow ==
    lastOp = "tick" => proj = HashMapKeys({e \in aranet4 : now - e.v.ts <= stale})

\* C5 as claimed: at every tick an entry older than the window stays in the
\* store and is left out of the projection, and what the document shows under
\* its device's display identifier is another device's reading; and when the
\* device has been decoded again, the next tick within the window shows that
\* reading under the device's display identifier.
C5_ReincludedInOutput ==
    [][lastOp' = "tick" =>
        /\ \A e \in aranet4 :
            now' - e.v.ts > stale =>
                /\ e \in aranet4'
                /\ e.k \notin proj'
                /\ \A i \in 1..Len(written') : \A x \in written'[i].aranet4 :
                    x.k = Display(devices', e.k) =>
                        \E f \in aranet4' :
                            /\ f.k # e.k
                            /\ now' - f.v.ts < stale
                            /\ Display(devices', f.k) = x.k
                            /\ f.v.ann = x.v
        /\ (/\ lastOp = "event"
            /\ pc = "select"
            /\ decoded # << >>
            /\ event.id \in excluded
            /\ now' - now < stale) =>
                /\ Len(written') = 1
                /\ \E x \in written'[1].aranet4 :
                    /\ x.k = Display(devices', event.id)
                    /\ x.v = decoded[Len(decoded)].ann]_vars

\* C6 as claimed: the store never holds two entries for one device, no step
\* removes a device from it, and a process_event that has decoded an
\* announcement of either kind leaves exactly (now, reading) as the entry of
\* the event's device.
C6_OneEntryLatestWins ==
    /\ [](\A e1, e2 \in aranet4 : e1.k = e2.k => e1 = e2)
    /\ [][/\ HashMapKeys(aranet4) \subseteq HashMapKeys(aranet4')
          /\ (lastOp' = "event" /\ decoded' # << >>) =>
                {e \in aranet4' : e.k = event'.id}
                    = {[k |-> event'.id,
                        v |-> [ts |-> now', ann |-> decoded'[Len(decoded')].ann]]}]_vars

\* C7: a tick whose write succeeds shows, for every device, the reading of the
\* device's last decodable recognised frame that is younger than the window:
\* the Aranet4 readings in the store, and the Mitherm reading of the event
\* processed just before the tick.
C7_NoLostUpdate ==
    [][(lastOp' = "tick" /\ result' = "Ok") =>
        /\ \A e \in aranet4' :
            now' - e.v.ts < stale =>
                Len(written') = 1 /\ \E x \in written'[1].aranet4 :
                    x.k = Display(devices', e.k) /\ x.v = e.v.ann
        /\ (EventReturned /\ now' - now < stale) =>
            \A p \in Decodable(event) :
                Len(written') = 1 /\ \E x \in written'[1].aranet4 :
                    x.k = Display(devices', event.id) /\ x.v = p.ann]_vars

\* C8: an event with only unrecognised keys changes neither State.aranet4 nor
\* State.devices and returns Ok, whatever its payloads.
C8_UnknownKeysIgnored ==
    [][(lastOp' = "event" /\ OnlyUnrecognised(event')) =>
        (aranet4' = aranet4 /\ devices' = devices /\ result' = "Ok" /\ pc' = "select")]_vars

\* C8 witness: an event with two unrecognised keys has been processed while the
\* store holds entries.
C8_Witness ==
    /\ lastOp = "event"
    /\ OnlyUnrecognised(event)
    /\ Len(event.pairs) = 2
    /\ aranet4 # {}

\* C9 as claimed: every tick writes exactly one newline-terminated document,
\* also when nothing in the store is younger than the window.
C9_OneDocumentPerTick ==
    lastOp = "tick" => (Len(written) = 1 /\ written[1].newline)

\* C10: the document of a tick has one entry for every device in the projection.
C10_OneEntryPerFreshDevice ==
    (lastOp = "tick" /\ Len(written) = 1) =>
        /\ Cardinality(written[1].aranet4) = Cardinality(proj)
        /\ \A d \in proj : \E x \in written[1].aranet4 : x.k = Display(devices, d)

\* --------------------------------------------- name lookup (C12, C13, C20)
\* C12: while a name lookup is outstanding the loop can take a timer tick
\* and a transport event, and the pairs of the current event that follow the
\* decoded one have been processed without waiting for the lookup.
C12_LookupNeverBlocks ==
    pc = "lookup" =>
        /\ ENABLED (\E t \in Clock, lvl \in Levels, sink \in Sinks : OutputTick(t, lvl, sink))
        /\ ENABLED (\E t \in Clock, ev \in Events, lvl \in Levels, sink \in Sinks :
                        Event(ev, t, lvl, sink))
        /\ visited = Len(event.pairs)

\* The name known for device d, if any.
KnownName(d) ==
    IF \E e \in devices : e.k = d /\ e.v.name # None
    THEN (CHOOSE e \in devices : e.k = d).v.name
    ELSE None

\* The completion of a lookup, failed or not, keeps the reading just decoded
\* and process_event returns Ok.
C13_LookupCompletes ==
    (pc = "lookup" /\ lastOp' = "lookup") =>
        /\ result' = "Ok"
        /\ HashMapGet(aranet4, event.id) # None
        /\ HashMapGet(aranet4', event.id) = HashMapGet(aranet4, event.id)

\* The document of a tick carries each fresh device's reading under the
\* device's name when one is known and under its raw identifier otherwise.
C13_OutputKey ==
    (lastOp = "tick" /\ Len(written) = 1) =>
        \A d \in proj :
            LET key == IF KnownName(d) = None THEN d ELSE KnownName(d)[1] IN
            \E x \in written[1].aranet4 :
                x.k = key /\ x.v = HashMapGet(aranet4, d)[1].ann

\* C13: when the name lookup fails or brings no name, the reading stays in
\* the store and no error reaches the loop; at later ticks the device's
\* fresh reading is output under the raw identifier, and under the name once
\* one is known.
C13_NameFallback ==
    /\ []C13_OutputKey
    /\ [][C13_LookupCompletes]_vars

\* The last pair decoded by the handler that ran last was an Aranet4 frame.
DecodedAranet4 == decoded # << >> /\ decoded[Len(decoded)].kind = "aranet4"

\* C20 as stated: a lookup is issued only for a device that has no reading
\* in the store yet, so at most once per device.
C20_LookupOnlyOnFirstDecode ==
    [][(pc = "select" /\ pc' = "lookup") => ~HashMapContainsKey(aranet4, event'.id)]_vars

\* C20 amended: a lookup is issued by exactly those events that decode an
\* Aranet4 frame of a device with no DeviceInfo in State.devices, and a
\* DeviceInfo once stored stays: after one successful lookup no other follows.
C20_LookupUntilKnown ==
    [][/\ (pc = "select" /\ pc' = "lookup")
            <=> /\ pc = "select"
                /\ lastOp' = "event"
                /\ DecodedAranet4'
                /\ ~HashMapContainsKey(devices, event'.id)
       /\ HashMapKeys(devices) \subseteq HashMapKeys(devices')]_vars

\* A frame of a device whose DeviceInfo is known has been decoded and stored,
\* and process_event returned without a lookup.
C20_Witness ==
    /\ pc = "select"
    /\ lastOp = "event"
    /\ DecodedAranet4
    /\ HashMapContainsKey(devices, event.id)
    /\ HashMapContainsKey(aranet4, event.id)

\* ------------------------------------------- loop and process (C11, C14..C16)
\* The step is an iteration of the loop in which select! took the tick.
TickTaken == timerDue /\ ~timerDue'
\* The step is an iteration of the loop in which select! took an event.
EventTaken == pending' < pending
\* The loop is running in a live process.
Running == main = "join" /\ runTask = "loop"
\* The process has exited with a non-zero status.
ExitedNonZero == main = "exited" /\ exitStatus # None /\ exitStatus[1] # 0

\* C11 as stated: the source that was ready and not taken in one iteration
\* is the one taken in the next iteration.
C11_ServicedNextIteration ==
    [][/\ (owed = "timer" /\ (TickTaken \/ EventTaken)) => TickTaken
       /\ (owed = "events" /\ (TickTaken \/ EventTaken)) => EventTaken]_vars

\* C11 amended: a due tick is taken in some later iteration, and a full
\* stream has an event taken in some later iteration, whatever the other
\* source does, unless the process exits first.
C11_NoStarvation ==
    /\ (Running /\ timerDue) ~> (~timerDue \/ main = "exited")
    /\ (Running /\ pending = MaxPending) ~> (pending < MaxPending \/ main = "exited")

\* The tick has just been taken while events were waiting, and events are
\* still waiting.
C11_Witness ==
    /\ Running
    /\ lastOp = "tick"
    /\ owed = "events"
    /\ pending = MaxPending

\* C14: the running loop leaves its state only when the process exits after
\* the session has terminated, and in that state it takes whatever is ready:
\* the completion of the lookup it awaits, else a due tick or a waiting
\* event, whatever the handlers before returned and whether or not the
\* stream has ended.
C14_OnlyExitStopsLoop ==
    /\ [](Running =>
            IF pc = "lookup"
            THEN ENABLED (SomeLookupStep)
            ELSE /\ timerDue =>
                    ENABLED (SomeTickStep)
                 /\ pending > 0 =>
                    ENABLED (SomeEventStep))
    /\ [][runTask = "loop" =>
            \/ runTask' = "loop"
            \/ session = "down" /\ main' = "exited"]_vars

\* The loop is running after the stream has ended, a lookup has failed and
\* the write of a document has failed.
C14_Witness ==
    /\ Running
    /\ ~streamOpen
    /\ aranet4 # {}
    /\ devices = {}
    /\ lastOp = "tick"
    /\ result = "Err"

\* C15: once the session has terminated the process exits with a non-zero
\* status; the session does not come up again; no exit has status 0.
C15_SessionEndExits ==
    /\ (session = "down") ~> ExitedNonZero
    /\ [](exitStatus # Some(0))
    /\ [][session = "down" => session' = "down"]_vars

\* The process has exited after its loop had stored a reading.
C15_Witness ==
    /\ ExitedNonZero
    /\ session = "down"
    /\ runTask = "dropped"
    /\ aranet4 # {}

\* C16: after a failed startup step the process has exited with a non-zero
\* status or main is about to return.
C16_InitFailureExits ==
    /\ (main = "exited" /\ session = "none") => ExitedNonZero
    /\ runTask = "panicked" => (ExitedNonZero \/ ENABLED MainExit)

\* ------------------------------------------------------ decoders (C17..C19)
\* The little-endian u16 whose first byte is byte i (counted from 0) of p.
U16At(p, i) == p[i + 1] + 256 * p[i + 2]
\* Bit b of the raw value v.
Bit(v, b) == (v \div (2 ^ b)) % 2 = 1
\* The lengths of the two layouts: the envelope, then the fields.
Aranet4Len == ARANET4_OFFSET + 2 + 2 + 2 + 1 + 1 + 1
MithermLen == MITHERM_OFFSET + 2 + 2 + 2 + 1

\* What C17 says of a payload long enough for the Kind A layout.
C17_Fields ==
    (kindA # None /\ Len(payload) >= Aranet4Len) =>
        LET r == kindA[1]
            c == U16At(payload, ARANET4_OFFSET)
            t == U16At(payload, ARANET4_OFFSET + 2)
            p == U16At(payload, ARANET4_OFFSET + 4)
        IN  /\ r.ok
            /\ r.ann.co2 = (IF Bit(c, 15) THEN None ELSE Some(c))
            /\ r.ann.temperature = (IF Bit(t, 14) THEN None ELSE Some(t * 5))
            /\ r.ann.pressure = (IF Bit(p, 15) THEN None ELSE Some(p * 10))
            /\ r.ann.humidity = payload[ARANET4_OFFSET + 7]
            /\ r.ann.battery = payload[ARANET4_OFFSET + 8]
            /\ r.ann.status = payload[ARANET4_OFFSET + 9]
            /\ payload = ARANET_FRAME =>
                r.ann = [co2 |-> Some(697), temperature |-> Some(473 * 5),
                         pressure |-> Some(10059 * 10), humidity |-> 51,
                         battery |-> 20, status |-> 1]

\* C17: for every payload long enough for the Kind A layout the decoder
\* returns co2, temperature, pressure (u16, little-endian), humidity,
\* battery, status (u8) read in that order after the envelope; co2 is absent
\* iff bit 15 of its raw value is set, temperature iff bit 14, pressure iff
\* bit 15, each bit touching its own field only, and a present value is the
\* raw one scaled (x1, x0.05, x0.1); decoding the same bytes again gives the
\* same result; the test frame gives 697, 473 raw, 10059 raw, 51, 20, 1.
C17_KindADecoder ==
    /\ []C17_Fields
    /\ [][kindA # None => kindA' = kindA]_vars

\* Decoded twice: co2 and pressure absent, temperature present although bit
\* 15 of its raw value is set.
C17_Witness ==
    /\ kindA # None
    /\ kindA[1].ok
    /\ Bit(U16At(payload, ARANET4_OFFSET + 2), 15)
    /\ kindA[1].ann.co2 = None
    /\ kindA[1].ann.temperature # None
    /\ kindA[1].ann.pressure = None

\* What C18 says of a payload long enough for the Kind B layout.
C18_Fields ==
    (kindB # None /\ Len(payload) >= MithermLen) =>
        LET r == kindB[1] IN
            /\ r.ok
            /\ r.ann.temperature = U16At(payload, MITHERM_OFFSET)
            /\ r.ann.humidity = U16At(payload, MITHERM_OFFSET + 2)
            /\ r.ann.battery_mv = U16At(payload, MITHERM_OFFSET + 4)
            /\ r.ann.battery_percent = payload[MITHERM_OFFSET + 7]
            /\ payload = MITHERM_FRAME =>
                r.ann = [temperature |-> 2238, humidity |-> 5444,
                         battery_mv |-> 3004, battery_percent |-> 100]

\* C18: for every payload long enough for the Kind B layout the decoder
\* returns temperature and humidity (u16 x 0.01, always present, whatever
\* the raw value), battery_mv (raw u16) and battery_percent (raw u8), read
\* little-endian in that order from the service-data offset; decoding the
\* same bytes again gives the same result; the test frame gives 2238 raw,
\* 5444 raw, 3004, 100.
C18_KindBDecoder ==
    /\ []C18_Fields
    /\ [][kindB # None => kindB' = kindB]_vars

\* A raw temperature with bit 15 set and a raw humidity with bit 14 set have
\* been decoded as Kind B, both present.
C18_Witness ==
    /\ kindB # None
    /\ kindB[1].ok
    /\ Bit(kindB[1].ann.temperature, 15)
    /\ Bit(kindB[1].ann.humidity, 14)
    /\ kindB[1].ann.temperature # kindB[1].ann.humidity

\* C19: a payload of any length below a decoder's layout makes that decoder
\* return the decode error and nothing else (no reading, partial or
\* defaulted); a payload of at least the layout's length decodes, and the
\* decoder stops at the layout's end, whatever follows.
C19_TruncationPolicy ==
    /\ kindA # None =>
        IF Len(payload) < Aranet4Len
        THEN kindA[1] = DecodeErr
        ELSE kindA[1].ok /\ kindA[1].offset = Aranet4Len
    /\ kindB # None =>
        IF Len(payload) < MithermLen
        THEN kindB[1] = DecodeErr
        ELSE kindB[1].ok /\ kindB[1].offset = MithermLen

\* Both decoders have run on a payload one byte short of the Kind A layout:
\* Kind A failed, Kind B decoded and left the bytes after its layout unread.
C19_Witness ==
    /\ Len(payload) = Aranet4Len - 1
    /\ kindA = Some(DecodeErr)
    /\ kindB # None
    /\ kindB[1].ok

====
